---- MODULE Spec2Model ----
(***************************************************************************)
(* Model of the gallery indexer scripts/generate_indexes.py                *)
(* (Metro-Olografix/gallery-server): main(), ImageProcessor.__init__ and   *)
(* ImageProcessor.process_images with the helpers they call, run against a *)
(* small filesystem.                                                       *)
(*                                                                         *)
(* File names and extensions are sequences of character codes (ASCII), so  *)
(* that lower(), Path.suffix and the sort of the paths are computed as     *)
(* Python computes them.  The bytes of a file are an abstract content      *)
(* number; content 0 is a file that does not decode as an image.           *)
(*                                                                         *)
(* The legacy indexer src/generate_indexes.py, which may have been run     *)
(* over the gallery before, is modelled step by step in the same way.      *)
(*                                                                         *)
(* The pagination loop of the crawler scripts/download_gallery.py          *)
(* (GalleryDownloader.run) is modelled next to it, under a specification   *)
(* of its own, CrawlerSpec.                                                *)
(***************************************************************************)
EXTENDS Integers, Sequences, FiniteSets, TLC

(***************************************************************************)
(* Bounds of the model.                                                    *)
(***************************************************************************)
\* number of runs of main() in one behaviour
MaxRuns == 2
\* number of changes made to the gallery between runs in one behaviour
MaxEnv == 1

(***************************************************************************)
(* Strings as sequences of character codes.                                *)
(***************************************************************************)
\* ".jpg"
DotJpg == <<46, 106, 112, 103>>
\* "jpg" (an extension given without its leading dot)
RawJpg == <<106, 112, 103>>
\* ".PNG"
RawPngUpper == <<46, 80, 78, 71>>
\* "p.jpg"
PJpg == <<112, 46, 106, 112, 103>>
\* "q.PNG"
QPng == <<113, 46, 80, 78, 71>>

\* str.lower() on one character
LowerChar(c) == IF c >= 65 /\ c <= 90 THEN c + 32 ELSE c

\* str.lower()
Lower(s) == [i \in 1..Len(s) |-> LowerChar(s[i])]

\* pathlib's Path.suffix: the last dot and what follows it, unless that dot
\* is the first or the last character of the name
Suffix(name) ==
    LET dots == {i \in 1..Len(name) : name[i] = 46}
    IN  IF dots = {} THEN <<>>
        ELSE LET i == CHOOSE j \in dots : \A k \in dots : k <= j
             IN  IF i > 1 /\ i < Len(name) THEN SubSeq(name, i, Len(name))
                 ELSE <<>>

\* s < t for Python strings (lexicographic on the code points)
RECURSIVE StrLess(_, _)
StrLess(s, t) ==
    IF t = <<>> THEN FALSE
    ELSE IF s = <<>> THEN TRUE
    ELSE IF Head(s) # Head(t) THEN Head(s) < Head(t)
    ELSE StrLess(Tail(s), Tail(t))

\* list.sort() on a list of paths of one directory
RECURSIVE InsertSorted(_, _)
InsertSorted(x, s) ==
    IF s = <<>> THEN <<x>>
    ELSE IF StrLess(x, Head(s)) THEN <<x>> \o s
    ELSE <<Head(s)>> \o InsertSorted(x, Tail(s))

RECURSIVE SortPaths(_)
SortPaths(s) ==
    IF s = <<>> THEN <<>>
    ELSE InsertSorted(Head(s), SortPaths(Tail(s)))

\* a directory listing of the names in S (iterdir, in some order)
RECURSIVE ListDir(_)
ListDir(S) ==
    IF S = {} THEN <<>>
    ELSE LET x == CHOOSE y \in S : TRUE IN <<x>> \o ListDir(S \ {x})

Range(s) == {s[i] : i \in 1..Len(s)}

(***************************************************************************)
(* The gallery: the universe of the model.                                 *)
(***************************************************************************)
\* the directories that may be albums of the root
AlbumNames == {"a", "b"}

\* the files that may lie in an album directory
FileNames(a) == IF a = "a" THEN {PJpg, QPng} ELSE {PJpg}

\* Image.open(path) followed by img.verify() succeeds on these bytes
Decodes(c) == c # 0

\* img.width and img.height of the decoded bytes
ImageWidth(c) == 10 * c
ImageHeight(c) == 10 * c + 1

\* path.stat().st_size
ByteSize(c) == 100 + c

\* the --thumbnail-size of the runs, and another size a thumbnail may have
TargetSize == <<3, 3>>
OtherSize == <<4, 3>>

\* the --extensions lists of the runs, as given on the command line:
\* ".PNG jpg" (the files are collected q.PNG first and then sorted) and
\* ".jpg jpg" (one extension given twice)
ExtensionLists == {<<RawPngUpper, RawJpg>>, <<DotJpg, RawJpg>>}

(***************************************************************************)
(* JSON documents.  An index.json on disk is a record whose kind says what *)
(* the file holds:                                                         *)
(*   "absent"   there is no file                                           *)
(*   "invalid"  a file that json.load rejects (garbage, empty, cut short)  *)
(*   "falsy"    valid JSON that Python treats as false: null, {}, [], 0    *)
(*   "nondict"  valid JSON, true in Python, but not an object: [1], 5, "x" *)
(*   "object"   a JSON object with the keys in `keys'                      *)
(* imagesOk says that the value of "images" is a list of objects that each *)
(* have a "name".                                                          *)
(***************************************************************************)
Doc(kind, keys, albums, name, images, imagesOk, generated, version) ==
    [kind |-> kind, keys |-> keys, albums |-> albums, name |-> name,
     images |-> images, imagesOk |-> imagesOk, count |-> Len(images),
     generated |-> generated, version |-> version]

AbsentDoc == Doc("absent", {}, <<>>, "", <<>>, TRUE, <<>>, "")
InvalidDoc == Doc("invalid", {}, <<>>, "", <<>>, TRUE, <<>>, "")
FalsyDoc == Doc("falsy", {}, <<>>, "", <<>>, TRUE, <<>>, "")
NonDictDoc == Doc("nondict", {}, <<>>, "", <<>>, TRUE, <<>>, "")
\* an object whose "images" is not a list of named records: {"images": [5]}
BadImagesDoc == Doc("object", {"images"}, <<>>, "", <<>>, FALSE, <<>>, "")
\* Python's None, returned by read_existing_index
NoneDoc == Doc("none", {}, <<>>, "", <<>>, TRUE, <<>>, "")

\* datetime.fromtimestamp(t).isoformat()
IsoFormat(t) == <<"iso", t>>

\* hashlib.sha256 of the bytes, as a hex digest
calculate_image_hash(c) == <<"sha256", c>>

\* str(Path("thumbnails") / path.name): "thumbnails/" followed by the name
ThumbnailRel(name) ==
    <<116, 104, 117, 109, 98, 110, 97, 105, 108, 115, 47>> \o name

\* the value of a missing "hash" key (.get returns None)
NoHash == <<>>

\* existing_image.get("hash")
EntryGetHash(e) == IF "hash" \in DOMAIN e THEN e.hash ELSE NoHash

(***************************************************************************)
(* ImageProcessor: the pure helpers.                                       *)
(***************************************************************************)
\* __init__: self.extensions
NormalizeExtension(ext) ==
    IF ext # <<>> /\ Head(ext) = 46 THEN Lower(ext) ELSE <<46>> \o Lower(ext)

NormalizeExtensions(exts) == [i \in 1..Len(exts) |-> NormalizeExtension(exts[i])]

\* mutant: the albums are listed last entry first
RECURSIVE get_albums_Reversed(_)
get_albums_Reversed(entries) ==
    IF entries = <<>> THEN <<>>
    ELSE LET d == Head(entries)
         IN  get_albums_Reversed(Tail(entries))
             \o (IF d.dir /\ d.name # "thumbnails" THEN <<d.name>> ELSE <<>>)

\* get_albums: the directories of the root that are not named "thumbnails"
RECURSIVE get_albums(_)
get_albums(entries) ==
    IF entries = <<>> THEN <<>>
    ELSE LET d == Head(entries)
         IN  (IF d.dir /\ d.name # "thumbnails" THEN <<d.name>> ELSE <<>>)
             \o get_albums(Tail(entries))

\* mutant: the extension alone decides
is_valid_image_ExtensionOnly(exts, name, file) ==
    Lower(Suffix(name)) \in Range(exts)

\* is_valid_image
is_valid_image(exts, name, file) ==
    IF Lower(Suffix(name)) \notin Range(exts) THEN FALSE
    ELSE Decodes(file.content)

\* get_image_info
get_image_info(name, file) ==
    [name |-> name,
     width |-> ImageWidth(file.content),
     height |-> ImageHeight(file.content),
     size |-> ByteSize(file.content),
     modified |-> IsoFormat(file.mtime),
     thumbnail |-> ThumbnailRel(name),
     hash |-> calculate_image_hash(file.content)]

\* mutant: a thumbnail as old as its image is taken to be stale
should_update_thumbnail_NotStrict(file, thumbsOf, name, size) ==
    IF name \notin DOMAIN thumbsOf THEN TRUE
    ELSE IF file.mtime >= thumbsOf[name].mtime THEN TRUE
    ELSE IF thumbsOf[name].dims = <<>> THEN TRUE
    ELSE IF thumbsOf[name].dims # size THEN TRUE
    ELSE FALSE

\* mutant: the dimensions of the thumbnail are not looked at
should_update_thumbnail_NoSizeCheck(file, thumbsOf, name, size) ==
    IF name \notin DOMAIN thumbsOf THEN TRUE
    ELSE IF file.mtime > thumbsOf[name].mtime THEN TRUE
    ELSE FALSE

\* should_update_thumbnail; thumbsOf is the content of <album>/thumbnails
should_update_thumbnail(file, thumbsOf, name, size) ==
    IF name \notin DOMAIN thumbsOf THEN TRUE
    ELSE IF file.mtime > thumbsOf[name].mtime THEN TRUE
    ELSE IF thumbsOf[name].dims = <<>> THEN TRUE
    ELSE IF thumbsOf[name].dims # size THEN TRUE
    ELSE FALSE

\* read_existing_index: the parsed document, or None
read_existing_index(doc) ==
    IF doc.kind \in {"absent", "invalid"} THEN NoneDoc ELSE doc

\* Python truth of a value returned by read_existing_index
Truthy(v) == v.kind \in {"nondict", "object"}

\* v.get(key) raises AttributeError: v is not a dict
GetRaises(v) == v.kind # "object"

\* the image files of an album: for each extension in turn the files of the
\* directory with that suffix, then sorted
RECURSIVE CollectImageFiles(_, _)
CollectImageFiles(exts, filesOf) ==
    IF exts = <<>> THEN <<>>
    ELSE ListDir({n \in DOMAIN filesOf : Lower(Suffix(n)) = Head(exts)})
         \o CollectImageFiles(Tail(exts), filesOf)

\* mutant: image_files is not sorted
image_files_of_Unsorted(exts, filesOf) == CollectImageFiles(exts, filesOf)

image_files_of(exts, filesOf) == SortPaths(CollectImageFiles(exts, filesOf))

\* existing_images: the name-indexed lookup of the prior entries; of two
\* entries with one name the dict comprehension keeps the later
HasExisting(existing, name) ==
    /\ Truthy(existing)
    /\ "images" \in existing.keys
    /\ \E i \in 1..Len(existing.images) : existing.images[i].name = name

ExistingImage(existing, name) ==
    LET idx == {i \in 1..Len(existing.images) : existing.images[i].name = name}
    IN  existing.images[CHOOSE i \in idx : \A j \in idx : j <= i]

\* building existing_images raises: .get on a non-dict, or an "images" value
\* that is not a list of objects with a "name"
ExistingImagesRaises(existing) ==
    /\ Truthy(existing)
    /\ \/ GetRaises(existing)
       \/ "images" \in existing.keys /\ ~existing.imagesOk

\* the entry appended to images_info for a validated, synchronized image
\* mutant: a prior entry of the same name is reused whatever its hash
HashUnchanged_NameOnly(existing, name, file) == HasExisting(existing, name)

\* "existing_image and existing_image.get("hash") == current_hash"
HashUnchanged(existing, name, file) ==
    /\ HasExisting(existing, name)
    /\ EntryGetHash(ExistingImage(existing, name))
         = calculate_image_hash(file.content)

\* mutant: the entry is computed afresh whatever the prior manifest holds
ReconciledEntry_AlwaysFresh(existing, name, file) == get_image_info(name, file)

\* the entry appended to images_info for a validated, synchronized image
ReconciledEntry(existing, name, file) ==
    IF HashUnchanged(existing, name, file)
    THEN ExistingImage(existing, name)
    ELSE get_image_info(name, file)

\* root_index and album_index as built by process_images
NewRootIndex(albumList, t) ==
    Doc("object", {"albums", "generated", "version"}, albumList, "", <<>>,
        TRUE, IsoFormat(t), "2.0")

NewAlbumIndex(a, infos, t) ==
    Doc("object", {"name", "images", "count", "generated", "version"}, <<>>,
        a, infos, TRUE, IsoFormat(t), "2.0")

\* mutant: the root manifest is written only when there is none
RootContentChanged_MissingOnly(existing, albumList) == ~Truthy(existing)

\* "not existing_root_index or existing_root_index.get("albums") != albums"
RootContentChanged(existing, albumList) ==
    \/ ~Truthy(existing)
    \/ "albums" \notin existing.keys
    \/ existing.albums # albumList

\* mutant: the album manifest is written only when there is none
AlbumContentChanged_MissingOnly(existing, infos) == ~Truthy(existing)

\* "not existing_album_index or existing_album_index.get("images") != images"
AlbumContentChanged(existing, infos) ==
    \/ ~Truthy(existing)
    \/ "images" \notin existing.keys
    \/ existing.images # infos

(***************************************************************************)
(* State.                                                                  *)
(***************************************************************************)
VARIABLES
    \* the environment and the filesystem under the root
    toolOK,         \* "convert -version" runs and reports ImageMagick
    rootExists,     \* the root path exists
    rootEntries,    \* root.iterdir(): a sequence of [name, dir]
    files,          \* files[a][n]: the image file n of album a
    thumbs,         \* thumbs[a][n]: the file <a>/thumbnails/<n>
    thumbDir,       \* thumbDir[a]: the directory <a>/thumbnails exists
    rootIndex,      \* <root>/index.json
    albumIndex,     \* albumIndex[a]: <root>/<a>/index.json
    now,            \* the clock
    \* the command line
    argExtensions,  \* --extensions, as given
    dry_run,        \* --dry-run of the current run
    \* the process: main() and the ImageProcessor
    pc,             \* where the run is
    extensions,     \* self.extensions
    albums,         \* process_images: albums (names)
    ai,             \* index of album_dir in albums
    existing_album_index,
    image_files,
    ii,             \* index of image_path in image_files
    images_info,
    \* history of the current run and of the one before
    runs,           \* runs of main() started
    envCount,       \* changes made to the gallery
    envLog,         \* the changes made since the last run ended
    start,          \* the filesystem when the current run started
    prev,           \* how the run before the current one ended
    validated,      \* sequence of <<album, name>> that passed is_valid_image
    invoked,        \* sequence of <<album, name>> given to convert
    failed,         \* sequence of <<album, name>> on which convert failed
    recomputed,     \* set of <<album, name>> given to get_image_info
    written,        \* set of manifests written ("" is the root)
    report          \* the decisions printed by the run

fsVars == <<toolOK, rootExists, rootEntries, files, thumbs, thumbDir,
            rootIndex, albumIndex>>
argVars == <<argExtensions>>
procVars == <<extensions, albums, ai, existing_album_index, image_files, ii,
              images_info>>
histVars == <<runs, envCount, envLog, start, prev, validated, invoked,
              failed, recomputed, written, report>>
indexerVars == <<fsVars, now, argVars, dry_run, pc, procVars, histVars>>

\* the crawler scripts/download_gallery.py: GalleryDownloader.run
VARIABLES
    crawl_pc,       \* where run() is
    page,           \* run: page
    album_links,    \* run: albums, the links get_album_links returned
    link_i,         \* index of album in albums
    requested,      \* the listing pages requested so far (their URLs)
    yielded,        \* the number of album links each of them yielded
    processed       \* the links of album_links given to process_album_page

crawlVars == <<crawl_pc, page, album_links, link_i, requested, yielded,
               processed>>

\* the legacy indexer src/generate_indexes.py and the convert it finds
VARIABLES
    convertRuns,        \* "convert -version" exits with 0
    legacy_pc,          \* where the legacy run is
    legacy_albums,      \* legacy process_images: albums (names)
    legacy_ai,          \* index of album_dir in albums
    legacy_image_files, \* legacy process_images: image_files
    legacy_ii,          \* index of image_path in image_files
    legacy_images_info  \* legacy process_images: images_info

legacyVars == <<convertRuns, legacy_pc, legacy_albums, legacy_ai,
                legacy_image_files, legacy_ii, legacy_images_info>>

vars == <<indexerVars, crawlVars, legacyVars>>

\* the legacy indexer has not been run; a convert that reports ImageMagick
\* also exits with 0
LegacyIdle ==
    /\ convertRuns \in BOOLEAN
    /\ toolOK => convertRuns
    /\ legacy_pc = "idle"
    /\ legacy_albums = <<>>
    /\ legacy_ai = 0
    /\ legacy_image_files = <<>>
    /\ legacy_ii = 0
    /\ legacy_images_info = <<>>

\* a run of the legacy indexer has started and has not ended
LegacyRunning == legacy_pc \notin {"idle", "done", "exit1", "killed"}

\* the downloader is constructed and run() has not been called
CrawlerIdle ==
    /\ crawl_pc = "idle"
    /\ page = 0
    /\ album_links = <<>>
    /\ link_i = 0
    /\ requested = <<>>
    /\ yielded = <<>>
    /\ processed = <<>>

\* a function with the one pair k |-> v added or replaced
Put(f, k, v) == [x \in DOMAIN f \cup {k} |-> IF x = k THEN v ELSE f[x]]
\* a function without the key k
Drop(f, k) == [x \in DOMAIN f \ {k} |-> f[x]]

EmptyDir == [x \in {} |-> 0]

ImageFile(c, t) == [content |-> c, mtime |-> t]
ThumbFile(dims, t) == [dims |-> dims, mtime |-> t]

(***************************************************************************)
(* The galleries a behaviour may start from.                               *)
(***************************************************************************)
DirEntry(n) == [name |-> n, dir |-> TRUE]
FileEntry(n) == [name |-> n, dir |-> FALSE]

RootListings ==
    { <<>>,
      <<DirEntry("a")>>,
      <<DirEntry("b"), DirEntry("a")>>,
      <<DirEntry("a"), DirEntry("thumbnails"), FileEntry("readme"),
        DirEntry("b")>> }

\* an album directory: its image files, its thumbnails and its index.json
Album(f, t, doc) == [files |-> f, thumbs |-> t, doc |-> doc]

\* p.jpg with its thumbnail: no file; a file that is not an image; an image
\* with no thumbnail, a fresh one (equal modification times), an older one,
\* one of another size, one that cannot be opened
InitP ==
    { [f |-> EmptyDir, t |-> EmptyDir],
      [f |-> (PJpg :> ImageFile(0, 1)), t |-> EmptyDir] }
    \cup { [f |-> (PJpg :> ImageFile(1, 1)), t |-> th] :
           th \in { EmptyDir,
                    (PJpg :> ThumbFile(TargetSize, 1)),
                    (PJpg :> ThumbFile(TargetSize, 0)),
                    (PJpg :> ThumbFile(OtherSize, 1)),
                    (PJpg :> ThumbFile(<<>>, 1)) } }

\* q.PNG with its thumbnail
InitQ ==
    { [f |-> EmptyDir, t |-> EmptyDir],
      [f |-> (QPng :> ImageFile(2, 1)), t |-> EmptyDir],
      [f |-> (QPng :> ImageFile(2, 1)),
       t |-> (QPng :> ThumbFile(TargetSize, 1))] }

\* an entry as get_image_info made it of the bytes c at time t, to which a
\* field was added that the indexer does not produce
CaptionedEntry(n, c, t) ==
    [name |-> n, width |-> ImageWidth(c), height |-> ImageHeight(c),
     size |-> ByteSize(c), modified |-> IsoFormat(t),
     thumbnail |-> ThumbnailRel(n), hash |-> calculate_image_hash(c),
     caption |-> "sunset"]

\* an entry as the legacy indexer src/generate_indexes.py writes it: no hash
LegacyEntry(n, c, t) ==
    [name |-> n, width |-> ImageWidth(c), height |-> ImageHeight(c),
     size |-> ByteSize(c), modified |-> IsoFormat(t),
     thumbnail |-> ThumbnailRel(n)]

\* an album manifest as the legacy indexer writes it: no version
LegacyAlbumIndex(a, infos, t) ==
    Doc("object", {"name", "images", "count", "generated"}, <<>>, a, infos,
        TRUE, IsoFormat(t), "")

\* a root manifest as the legacy indexer writes it: no version
LegacyRootIndex(albumList, t) ==
    Doc("object", {"albums", "generated"}, albumList, "", <<>>, TRUE,
        IsoFormat(t), "")

\* a manifest of album "a" of an earlier time: p.jpg with the hash of its
\* bytes and a caption, q.PNG with the hash of other bytes
PriorAlbumIndex ==
    NewAlbumIndex("a", <<CaptionedEntry(PJpg, 1, 0),
                         CaptionedEntry(QPng, 1, 0)>>, 0)

InitAlbumDocs == {AbsentDoc, InvalidDoc, FalsyDoc, NonDictDoc, BadImagesDoc,
                  PriorAlbumIndex}

\* p.jpg and q.PNG as a run leaves them: images with fresh thumbnails
SyncedP == [f |-> (PJpg :> ImageFile(1, 1)),
            t |-> (PJpg :> ThumbFile(TargetSize, 1))]
SyncedQ == [f |-> (QPng :> ImageFile(2, 1)),
            t |-> (QPng :> ThumbFile(TargetSize, 1))]

\* album "a": each state of one of its files next to the other file in
\* sync, without a manifest; and every kind of manifest next to its images
InitAlbumA ==
    { Album(p.f @@ SyncedQ.f, p.t @@ SyncedQ.t, AbsentDoc) : p \in InitP }
    \cup { Album(SyncedP.f @@ q.f, SyncedP.t @@ q.t, AbsentDoc) : q \in InitQ }
    \cup { Album(SyncedP.f @@ SyncedQ.f, SyncedP.t, d) : d \in InitAlbumDocs }

\* album "b": empty, one image, one image dated in the future
InitAlbumB ==
    { Album(EmptyDir, EmptyDir, AbsentDoc),
      Album((PJpg :> ImageFile(1, 1)), EmptyDir, AbsentDoc),
      Album((PJpg :> ImageFile(1, 9)), EmptyDir, AbsentDoc) }

NoAlbum == Album(EmptyDir, EmptyDir, AbsentDoc)

\* two images in sync, no manifest
SyncedAlbum == Album(SyncedP.f @@ SyncedQ.f, SyncedP.t @@ SyncedQ.t, AbsentDoc)

\* two images, one thumbnail, no manifest
SimpleAlbum == Album(SyncedP.f @@ SyncedQ.f, SyncedP.t, AbsentDoc)

\* a root manifest left by an earlier run over other albums
StaleRootDoc ==
    Doc("object", {"albums", "generated", "version"}, <<"z">>, "", <<>>, TRUE,
        IsoFormat(0), "2.0")

InitRootDocs == {AbsentDoc, InvalidDoc, NonDictDoc, StaleRootDoc}

Present(listing, a) == \E i \in 1..Len(listing) :
                          listing[i].name = a /\ listing[i].dir

NoRun == [pc |-> "idle", dry |-> FALSE, report |-> {}, env |-> {},
          failed |-> <<>>]

\* the filesystem of a gallery
Gallery(listing, A, B, rootDoc) ==
    /\ rootEntries = listing
    /\ files = [a \in AlbumNames |-> IF a = "a" THEN A.files ELSE B.files]
    /\ thumbs = [a \in AlbumNames |-> IF a = "a" THEN A.thumbs ELSE B.thumbs]
    /\ thumbDir = [a \in AlbumNames |->
                     IF a = "a" THEN A.thumbs # EmptyDir
                     ELSE B.thumbs # EmptyDir]
    /\ rootIndex = rootDoc
    /\ albumIndex = [a \in AlbumNames |-> IF a = "a" THEN A.doc ELSE B.doc]

IndexerInit ==
    /\ argExtensions \in ExtensionLists
    /\ toolOK \in BOOLEAN
    /\ rootExists \in BOOLEAN
    /\ IF ~rootExists
       THEN Gallery(<<>>, NoAlbum, NoAlbum, AbsentDoc)
       ELSE \E listing \in RootListings, rootDoc \in InitRootDocs :
            \E A \in (IF Present(listing, "a") THEN InitAlbumA ELSE {NoAlbum}),
               B \in (IF Present(listing, "b") THEN InitAlbumB ELSE {NoAlbum}) :
               \* the albums vary under one root, the roots over one album
               /\ \/ Len(listing) = 4 /\ rootDoc = AbsentDoc
                  \/ A = NoAlbum
                  \/ A = SimpleAlbum
               /\ toolOK \/ (Len(listing) = 4 /\ A = SimpleAlbum)
               /\ \/ argExtensions = <<RawPngUpper, RawJpg>>
                  \/ Len(listing) = 4 /\ A \in {SimpleAlbum, SyncedAlbum}
               /\ Gallery(listing, A, B, rootDoc)
    /\ now = 1
    /\ dry_run = FALSE
    /\ pc = "idle"
    /\ extensions = <<>>
    /\ albums = <<>>
    /\ ai = 0
    /\ existing_album_index = NoneDoc
    /\ image_files = <<>>
    /\ ii = 0
    /\ images_info = <<>>
    /\ runs = 0
    /\ envCount = 0
    /\ envLog = {}
    /\ start = [root |-> rootIndex, idx |-> albumIndex, thumbs |-> thumbs,
                thumbDir |-> thumbDir]
    /\ prev = NoRun
    /\ validated = <<>>
    /\ invoked = <<>>
    /\ failed = <<>>
    /\ recomputed = {}
    /\ written = {}
    /\ report = {}

\* the indexer before its first run, next to a downloader that is not run
Init == IndexerInit /\ CrawlerIdle /\ LegacyIdle

(***************************************************************************)
(* main() and ImageProcessor, one action per step of the run.              *)
(***************************************************************************)
\* mutant: the check passes whatever "convert -version" does
check_imagemagick_Always(ok) == TRUE

\* check_imagemagick
check_imagemagick(ok) == ok

\* the decisions a run prints
ThumbDecision(a, n, d) == <<"thumbnail", a, n, d>>
IndexDecision(a, d) == <<"index", a, <<>>, d>>

\* main: a run starts, the first one or one after a run that succeeded; the
\* ImageMagick check comes first and exits with 1
Main(dry) ==
    /\ pc \in {"idle", "done"}
    /\ ~LegacyRunning
    /\ runs < MaxRuns
    /\ runs' = runs + 1
    /\ now' = now + 2
    /\ dry_run' = dry
    /\ prev' = [pc |-> pc, dry |-> dry_run, report |-> report, env |-> envLog,
                failed |-> failed]
    /\ start' = [root |-> rootIndex, idx |-> albumIndex, thumbs |-> thumbs,
                 thumbDir |-> thumbDir]
    /\ envLog' = {}
    /\ validated' = <<>>
    /\ invoked' = <<>>
    /\ failed' = <<>>
    /\ recomputed' = {}
    /\ written' = {}
    /\ report' = {}
    /\ extensions' = <<>>
    /\ albums' = <<>>
    /\ ai' = 0
    /\ existing_album_index' = NoneDoc
    /\ image_files' = <<>>
    /\ ii' = 0
    /\ images_info' = <<>>
    /\ pc' = IF check_imagemagick(toolOK) THEN "construct" ELSE "exit1"
    /\ UNCHANGED <<fsVars, argVars, crawlVars, legacyVars, envCount>>

\* mutant: the thumbnails directories are created in a dry run too
CreatesThumbDirs_Always(dry) == TRUE

\* __init__ creates the thumbnails directories
CreatesThumbDirs(dry) == ~dry

\* ImageProcessor.__init__: a missing root raises ValueError, which main
\* turns into exit(1); otherwise the thumbnails directories are created
Construct ==
    /\ pc = "construct"
    /\ IF ~rootExists
       THEN /\ pc' = "exit1"
            /\ UNCHANGED <<extensions, thumbDir>>
       ELSE /\ extensions' = NormalizeExtensions(argExtensions)
            /\ thumbDir' =
                 IF CreatesThumbDirs(dry_run)
                 THEN [a \in AlbumNames |->
                         thumbDir[a] \/ a \in Range(get_albums(rootEntries))]
                 ELSE thumbDir
            /\ pc' = "root"
    /\ UNCHANGED <<toolOK, rootExists, rootEntries, files, thumbs, rootIndex,
                   albumIndex, now, argVars, crawlVars, legacyVars, dry_run,
                   albums, ai,
                   existing_album_index, image_files, ii, images_info,
                   histVars>>

\* the album loop goes to its k-th album, or the run ends with success
GoToAlbum(k, albumList) ==
    /\ ai' = k
    /\ pc' = IF k > Len(albumList) THEN "done" ELSE "album"

\* the root manifest is written (not a dry run, and no prior one or another
\* album list)
RootWrites(dry, existing, albumList) ==
    ~dry /\ RootContentChanged(existing, albumList)

\* the comparison of the root manifest raises AttributeError
RootCompareRaises(dry, existing) ==
    ~dry /\ Truthy(existing) /\ GetRaises(existing)

\* process_images up to the decision on the root manifest; open(path, "w")
\* empties the file, json.dump fills it in RootWriteEnd
RootIndexStep ==
    /\ pc = "root"
    /\ LET albumList == get_albums(rootEntries)
           existing == read_existing_index(rootIndex)
       IN  /\ albums' = albumList
           /\ IF RootCompareRaises(dry_run, existing)
              THEN /\ pc' = "exit1"
                   /\ UNCHANGED <<rootIndex, ai, report>>
              ELSE IF RootWrites(dry_run, existing, albumList)
              THEN /\ rootIndex' = InvalidDoc
                   /\ pc' = "rootwrite"
                   /\ UNCHANGED <<ai, report>>
              ELSE /\ report' = report \cup {IndexDecision("", "uptodate")}
                   /\ GoToAlbum(1, albumList)
                   /\ UNCHANGED rootIndex
    /\ UNCHANGED <<toolOK, rootExists, rootEntries, files, thumbs, thumbDir,
                   albumIndex, now, argVars, crawlVars, legacyVars, dry_run,
                   extensions,
                   existing_album_index, image_files, ii, images_info, runs,
                   envCount, envLog, start, prev, validated, invoked,
                   failed, recomputed, written>>

\* json.dump(root_index, f) completes and the file is closed
RootWriteEnd ==
    /\ pc = "rootwrite"
    /\ rootIndex' = NewRootIndex(albums, now)
    /\ written' = written \cup {""}
    /\ report' = report \cup {IndexDecision("", "write")}
    /\ GoToAlbum(1, albums)
    /\ UNCHANGED <<toolOK, rootExists, rootEntries, files, thumbs, thumbDir,
                   albumIndex, now, argVars, crawlVars, legacyVars,
                   dry_run, extensions, albums,
                   existing_album_index, image_files, ii, images_info, runs,
                   envCount, envLog, start, prev, validated, invoked,
                   failed, recomputed>>

\* the start of the album loop's body: the prior manifest is read, the
\* lookup of its entries is built, the image files are listed and sorted
AlbumBegin ==
    /\ pc = "album"
    /\ LET a == albums[ai]
           existing == read_existing_index(albumIndex[a])
       IN  IF ExistingImagesRaises(existing)
           THEN /\ pc' = "exit1"
                /\ UNCHANGED <<existing_album_index, image_files, ii,
                               images_info>>
           ELSE /\ existing_album_index' = existing
                /\ image_files' = image_files_of(extensions, files[a])
                /\ images_info' = <<>>
                /\ ii' = 1
                /\ pc' = IF image_files' = <<>> THEN "albumindex"
                         ELSE "validate"
    /\ UNCHANGED <<fsVars, now, argVars, crawlVars, legacyVars,
                   dry_run, extensions, albums, ai,
                   histVars>>

\* the image loop goes to the next image, or to the album manifest
NextImage ==
    /\ ii' = ii + 1
    /\ pc' = IF ii + 1 > Len(image_files) THEN "albumindex" ELSE "validate"

\* "if not self.is_valid_image(image_path): continue"
Validate ==
    /\ pc = "validate"
    /\ LET a == albums[ai]
           n == image_files[ii]
       IN  IF is_valid_image(extensions, n, files[a][n])
           THEN /\ pc' = "thumb"
                /\ validated' = Append(validated, <<a, n>>)
                /\ UNCHANGED ii
           ELSE /\ NextImage
                /\ UNCHANGED validated
    /\ UNCHANGED <<fsVars, now, argVars, crawlVars, legacyVars,
                   dry_run, extensions, albums, ai,
                   existing_album_index, image_files, images_info, runs,
                   envCount, envLog, start, prev, invoked, failed, recomputed,
                   written, report>>

\* create_thumbnail returns without calling convert: a dry run, or a
\* thumbnail that needs no update
SkipsConvert(dry, stale) == dry \/ ~stale

\* mutant: CalledProcessError is not caught
OnConvertFailure_Raise == "raise"

\* what create_thumbnail does when convert exits non-zero:
\* CalledProcessError is caught and False is returned
OnConvertFailure == "false"

\* create_thumbnail, with the call of convert; convert writes the thumbnail
\* at the target size, or fails
CreateThumbnail ==
    /\ pc = "thumb"
    /\ LET a == albums[ai]
           n == image_files[ii]
           stale == should_update_thumbnail(files[a][n], thumbs[a], n,
                                            TargetSize)
       IN  IF SkipsConvert(dry_run, stale)
           THEN /\ report' = report \cup
                       {ThumbDecision(a, n, IF dry_run THEN "create"
                                            ELSE "uptodate")}
                /\ pc' = "reconcile"
                /\ UNCHANGED <<thumbs, invoked, failed, ii>>
           ELSE /\ invoked' = Append(invoked, <<a, n>>)
                /\ report' = report \cup {ThumbDecision(a, n, "create")}
                /\ \E ok \in (IF thumbDir[a] THEN BOOLEAN ELSE {FALSE}) :
                     IF ok
                     THEN /\ thumbs' = [thumbs EXCEPT ![a] =
                                 Put(@, n, ThumbFile(TargetSize, now))]
                          /\ pc' = "reconcile"
                          /\ UNCHANGED <<ii, failed>>
                     ELSE /\ UNCHANGED thumbs
                          /\ failed' = Append(failed, <<a, n>>)
                          /\ IF OnConvertFailure = "false"
                             THEN NextImage
                             ELSE pc' = "exit1" /\ UNCHANGED ii
    /\ UNCHANGED <<toolOK, rootExists, rootEntries, files, thumbDir, rootIndex,
                   albumIndex, now, argVars, crawlVars, legacyVars,
                   dry_run, extensions, albums, ai,
                   existing_album_index, image_files, images_info, runs,
                   envCount, envLog, start, prev, validated, recomputed,
                   written>>

\* the hash is computed and the prior entry is reused or a fresh one made
Reconcile ==
    /\ pc = "reconcile"
    /\ LET a == albums[ai]
           n == image_files[ii]
           f == files[a][n]
       IN  /\ images_info' = Append(images_info,
                                    ReconciledEntry(existing_album_index, n, f))
           /\ recomputed' = IF HashUnchanged(existing_album_index, n, f)
                            THEN recomputed
                            ELSE recomputed \cup {<<a, n>>}
    /\ NextImage
    /\ UNCHANGED <<fsVars, now, argVars, crawlVars, legacyVars,
                   dry_run, extensions, albums, ai,
                   existing_album_index, image_files, runs, envCount, envLog,
                   start, prev, validated, invoked, failed, written, report>>

\* mutant: the album manifest is written by every run that is not a dry run
AlbumWrites_Always(dry, existing, infos) == ~dry

\* the album manifest is written
AlbumWrites(dry, existing, infos) ==
    ~dry /\ AlbumContentChanged(existing, infos)

\* the decision on the album manifest; open(path, "w") empties the file
AlbumIndexStep ==
    /\ pc = "albumindex"
    /\ LET a == albums[ai]
       IN  IF AlbumWrites(dry_run, existing_album_index, images_info)
           THEN /\ albumIndex' = [albumIndex EXCEPT ![a] = InvalidDoc]
                /\ pc' = "albumwrite"
                /\ UNCHANGED <<ai, report>>
           ELSE /\ report' = report \cup {IndexDecision(a, "uptodate")}
                /\ GoToAlbum(ai + 1, albums)
                /\ UNCHANGED albumIndex
    /\ UNCHANGED <<toolOK, rootExists, rootEntries, files, thumbs, thumbDir,
                   rootIndex, now, argVars, crawlVars, legacyVars,
                   dry_run, extensions, albums,
                   existing_album_index, image_files, ii, images_info, runs,
                   envCount, envLog, start, prev, validated, invoked,
                   failed, recomputed, written>>

\* json.dump(album_index, f) completes and the file is closed
AlbumWriteEnd ==
    /\ pc = "albumwrite"
    /\ LET a == albums[ai]
       IN  /\ albumIndex' = [albumIndex EXCEPT ![a] =
                                NewAlbumIndex(a, images_info, now)]
           /\ written' = written \cup {a}
           /\ report' = report \cup {IndexDecision(a, "write")}
    /\ GoToAlbum(ai + 1, albums)
    /\ UNCHANGED <<toolOK, rootExists, rootEntries, files, thumbs, thumbDir,
                   rootIndex, now, argVars, crawlVars, legacyVars,
                   dry_run, extensions, albums,
                   existing_album_index, image_files, ii, images_info, runs,
                   envCount, envLog, start, prev, validated, invoked,
                   failed, recomputed>>

\* the process is terminated from outside (a signal) while a manifest is
\* being written; nothing is run after that
Kill ==
    /\ pc \in {"rootwrite", "albumwrite"}
    /\ pc' = "killed"
    /\ UNCHANGED <<fsVars, now, argVars, crawlVars, legacyVars,
                   dry_run, procVars, histVars>>

(***************************************************************************)
(* The legacy indexer src/generate_indexes.py, run over the gallery before *)
(* the first run of scripts/generate_indexes.py, one action per step of    *)
(* its run.  The run is not a dry run: a dry run of the legacy indexer     *)
(* makes no directory, calls no convert and writes no file.                *)
(***************************************************************************)
\* ".png"
DotPng == <<46, 112, 110, 103>>

\* the --extensions of the legacy run, ".jpg .png"; the legacy indexer
\* takes them as they are given
LegacyExtensions == <<DotJpg, DotPng>>

\* legacy check_imagemagick: only the exit status of "convert -version"
legacy_check_imagemagick(exits0) == exits0

\* legacy get_albums: every directory of the root, "thumbnails" too
RECURSIVE legacy_get_albums(_)
legacy_get_albums(entries) ==
    IF entries = <<>> THEN <<>>
    ELSE (IF Head(entries).dir THEN <<Head(entries).name>> ELSE <<>>)
         \o legacy_get_albums(Tail(entries))

\* legacy is_valid_image: the file decodes; its suffix is not looked at
legacy_is_valid_image(f) == Decodes(f.content)

\* legacy image_files before the sort: for every extension of the list, all
\* files whose suffix is in the list
RECURSIVE LegacyCollectImageFiles(_, _, _)
LegacyCollectImageFiles(todo, exts, filesOf) ==
    IF todo = <<>> THEN <<>>
    ELSE ListDir({n \in DOMAIN filesOf : Lower(Suffix(n)) \in Range(exts)})
         \o LegacyCollectImageFiles(Tail(todo), exts, filesOf)

legacy_image_files_of(exts, filesOf) ==
    SortPaths(LegacyCollectImageFiles(exts, exts, filesOf))

\* what one call of convert on an image does: ImageMagick writes the
\* thumbnail and exits with 0, or exits with another status; a convert that
\* is not ImageMagick may also exit with 0 and have written nothing
ConvertOutcomes(imagemagick) ==
    IF imagemagick THEN {"written", "failed"}
    ELSE {"written", "failed", "nothing"}

\* legacy main() up to the ImageMagick check, which exits with 1
LegacyMain ==
    /\ legacy_pc = "idle"
    /\ pc = "idle" /\ runs = 0 /\ envCount < MaxEnv
    /\ legacy_pc' = IF legacy_check_imagemagick(convertRuns) THEN "construct"
                    ELSE "exit1"
    /\ now' = now + 1
    /\ envCount' = envCount + 1
    /\ envLog' = envLog \cup {<<"legacy", "", <<>>>>}
    /\ UNCHANGED <<fsVars, argVars, crawlVars, dry_run, pc, procVars, runs,
                   start, prev, validated, invoked, failed, recomputed,
                   written, report, convertRuns, legacy_albums, legacy_ai,
                   legacy_image_files, legacy_ii, legacy_images_info>>

\* what no step of the legacy run changes
LegacyFrame ==
    UNCHANGED <<toolOK, rootExists, rootEntries, files, now, argVars,
                crawlVars, dry_run, pc, procVars, histVars, convertRuns>>

\* legacy __init__: get_albums raises on a missing root, which main turns
\* into exit(1); otherwise the thumbnails directories are made, one by one
LegacyConstruct ==
    /\ legacy_pc = "construct"
    /\ IF ~rootExists
       THEN /\ legacy_pc' = "exit1"
            /\ UNCHANGED <<legacy_albums, legacy_ai>>
       ELSE /\ legacy_albums' = legacy_get_albums(rootEntries)
            /\ legacy_ai' = 1
            /\ legacy_pc' = IF legacy_albums' = <<>> THEN "root" ELSE "mkdir"
    /\ UNCHANGED <<thumbs, thumbDir, rootIndex, albumIndex,
                   legacy_image_files, legacy_ii, legacy_images_info>>
    /\ LegacyFrame

\* thumb_dir.mkdir(exist_ok=True) of one album
LegacyMkdir ==
    /\ legacy_pc = "mkdir"
    /\ LET a == legacy_albums[legacy_ai]
       IN  thumbDir' = [x \in AlbumNames |-> thumbDir[x] \/ x = a]
    /\ legacy_ai' = legacy_ai + 1
    /\ legacy_pc' = IF legacy_ai + 1 > Len(legacy_albums) THEN "root"
                    ELSE "mkdir"
    /\ UNCHANGED <<thumbs, rootIndex, albumIndex, legacy_albums,
                   legacy_image_files, legacy_ii, legacy_images_info>>
    /\ LegacyFrame

\* the legacy album loop goes to its k-th album, or the run ends
LegacyGoToAlbum(k, albumList) ==
    /\ legacy_ai' = k
    /\ legacy_pc' = IF k > Len(albumList) THEN "done" ELSE "album"

\* legacy process_images up to open(root / "index.json", "w"), which empties
\* the file whatever it held
LegacyRootOpen ==
    /\ legacy_pc = "root"
    /\ legacy_albums' = legacy_get_albums(rootEntries)
    /\ rootIndex' = InvalidDoc
    /\ legacy_pc' = "rootwrite"
    /\ UNCHANGED <<thumbs, thumbDir, albumIndex, legacy_ai,
                   legacy_image_files, legacy_ii, legacy_images_info>>
    /\ LegacyFrame

\* json.dump(root_index, f) completes and the file is closed
LegacyRootWriteEnd ==
    /\ legacy_pc = "rootwrite"
    /\ rootIndex' = LegacyRootIndex(legacy_albums, now)
    /\ LegacyGoToAlbum(1, legacy_albums)
    /\ UNCHANGED <<thumbs, thumbDir, albumIndex, legacy_albums,
                   legacy_image_files, legacy_ii, legacy_images_info>>
    /\ LegacyFrame

\* the start of the legacy album loop's body: the image files are listed and
\* sorted; a directory of the root that is not one of the albums of the
\* model ("thumbnails") holds no file
LegacyAlbumBegin ==
    /\ legacy_pc = "album"
    /\ LET a == legacy_albums[legacy_ai]
       IN  legacy_image_files' =
              IF a \in AlbumNames
              THEN legacy_image_files_of(LegacyExtensions, files[a])
              ELSE <<>>
    /\ legacy_images_info' = <<>>
    /\ legacy_ii' = 1
    /\ legacy_pc' = IF legacy_image_files' = <<>> THEN "albumindex"
                    ELSE "image"
    /\ UNCHANGED <<thumbs, thumbDir, rootIndex, albumIndex, legacy_albums,
                   legacy_ai>>
    /\ LegacyFrame

\* one turn of the legacy image loop: a file that does not decode is passed
\* over; convert is called on every other one, and get_image_info makes the
\* entry of the image when convert exited with 0
LegacyImage ==
    /\ legacy_pc = "image"
    /\ LET a == legacy_albums[legacy_ai]
           n == legacy_image_files[legacy_ii]
           f == files[a][n]
       IN  IF ~legacy_is_valid_image(f)
           THEN UNCHANGED <<thumbs, legacy_images_info>>
           ELSE \E o \in ConvertOutcomes(toolOK) :
                  /\ thumbs' = IF o = "written"
                               THEN [thumbs EXCEPT ![a] =
                                       Put(@, n, ThumbFile(TargetSize, now))]
                               ELSE thumbs
                  /\ legacy_images_info' =
                       IF o = "failed" THEN legacy_images_info
                       ELSE Append(legacy_images_info,
                                   LegacyEntry(n, f.content, f.mtime))
    /\ legacy_ii' = legacy_ii + 1
    /\ legacy_pc' = IF legacy_ii + 1 > Len(legacy_image_files)
                    THEN "albumindex" ELSE "image"
    /\ UNCHANGED <<thumbDir, rootIndex, albumIndex, legacy_albums, legacy_ai,
                   legacy_image_files>>
    /\ LegacyFrame

\* open(album_dir / "index.json", "w") empties the file
LegacyAlbumOpen ==
    /\ legacy_pc = "albumindex"
    /\ LET a == legacy_albums[legacy_ai]
       IN  albumIndex' = [x \in AlbumNames |->
                             IF x = a THEN InvalidDoc ELSE albumIndex[x]]
    /\ legacy_pc' = "albumwrite"
    /\ UNCHANGED <<thumbs, thumbDir, rootIndex, legacy_albums, legacy_ai,
                   legacy_image_files, legacy_ii, legacy_images_info>>
    /\ LegacyFrame

\* json.dump(album_index, f) completes and the file is closed
LegacyAlbumWriteEnd ==
    /\ legacy_pc = "albumwrite"
    /\ LET a == legacy_albums[legacy_ai]
       IN  albumIndex' = [x \in AlbumNames |->
                             IF x = a
                             THEN LegacyAlbumIndex(a, legacy_images_info, now)
                             ELSE albumIndex[x]]
    /\ LegacyGoToAlbum(legacy_ai + 1, legacy_albums)
    /\ UNCHANGED <<thumbs, thumbDir, rootIndex, legacy_albums,
                   legacy_image_files, legacy_ii, legacy_images_info>>
    /\ LegacyFrame

\* the legacy process is terminated from outside (a signal) while a
\* manifest is being written
LegacyKill ==
    /\ legacy_pc \in {"rootwrite", "albumwrite"}
    /\ legacy_pc' = "killed"
    /\ UNCHANGED <<thumbs, thumbDir, rootIndex, albumIndex, legacy_albums,
                   legacy_ai, legacy_image_files, legacy_ii,
                   legacy_images_info>>
    /\ LegacyFrame

(***************************************************************************)
(* Changes made to the gallery between two runs, at a time between them.   *)
(***************************************************************************)
\* the changes are made to galleries the legacy indexer was not run over
EnvEnabled ==
    pc = "done" /\ runs < MaxRuns /\ envCount < MaxEnv /\ legacy_pc = "idle"

EnvFrame(op, a, n) ==
    /\ envCount' = envCount + 1
    /\ envLog' = envLog \cup {<<op, a, n>>}
    /\ UNCHANGED <<toolOK, rootExists, rootEntries, thumbDir, rootIndex,
                   albumIndex, now, argVars, crawlVars, legacyVars,
                   dry_run, pc, procVars, runs,
                   start, prev, validated, invoked, failed, recomputed,
                   written, report>>

\* the bytes an editor makes of the bytes c: other bytes; of an image another
\* image or a file that no longer decodes
EditedContent(c) == (c + 1) % 3

\* the bytes of an image file are replaced
EnvModifyImage(a, n) ==
    /\ EnvEnabled
    /\ n \in DOMAIN files[a]
    /\ files' = [files EXCEPT ![a] =
                    Put(@, n, ImageFile(EditedContent(@[n].content), now + 1))]
    /\ UNCHANGED thumbs
    /\ EnvFrame("modify", a, n)

\* touch
EnvTouchImage(a, n) ==
    /\ EnvEnabled
    /\ n \in DOMAIN files[a]
    /\ files' = [files EXCEPT ![a] =
                    Put(@, n, ImageFile(@[n].content, now + 1))]
    /\ UNCHANGED thumbs
    /\ EnvFrame("touch", a, n)

\* an image file is removed from its album
EnvDeleteImage(a, n) ==
    /\ EnvEnabled
    /\ n \in DOMAIN files[a]
    /\ files' = [files EXCEPT ![a] = Drop(@, n)]
    /\ UNCHANGED thumbs
    /\ EnvFrame("delete", a, n)

\* a thumbnail file is removed
EnvDeleteThumbnail(a, n) ==
    /\ EnvEnabled
    /\ n \in DOMAIN thumbs[a]
    /\ thumbs' = [thumbs EXCEPT ![a] = Drop(@, n)]
    /\ UNCHANGED files
    /\ EnvFrame("rmthumb", a, n)

\* the list s with x put in after its first k elements
InsertAt(s, k, x) == SubSeq(s, 1, k) \o <<x>> \o SubSeq(s, k + 1, Len(s))

\* mkdir <root>/<a>: a new, empty directory appears among the entries of the
\* root, at any place of the listing
EnvAddAlbum(a, k) ==
    /\ EnvEnabled
    /\ rootExists
    /\ \A i \in 1..Len(rootEntries) : rootEntries[i].name # a
    /\ k \in 0..Len(rootEntries)
    /\ rootEntries' = InsertAt(rootEntries, k, DirEntry(a))
    /\ envCount' = envCount + 1
    /\ envLog' = envLog \cup {<<"mkdir", a, <<>>>>}
    /\ UNCHANGED <<toolOK, rootExists, files, thumbs, thumbDir, rootIndex,
                   albumIndex, now, argVars, crawlVars, legacyVars,
                   dry_run, pc, procVars, runs,
                   start, prev, validated, invoked, failed, recomputed,
                   written, report>>

\* the albums whose files are changed between runs
EnvAlbums == {"a"}

Env ==
    \/ \E a \in EnvAlbums : \E n \in FileNames(a) :
          \/ EnvModifyImage(a, n)
          \/ EnvTouchImage(a, n)
          \/ EnvDeleteImage(a, n)
          \/ EnvDeleteThumbnail(a, n)
    \/ \E a \in AlbumNames : \E k \in 0..Len(rootEntries) :
          EnvAddAlbum(a, k)

Next ==
    \/ \E dry \in BOOLEAN : Main(dry)
    \/ Construct
    \/ RootIndexStep
    \/ RootWriteEnd
    \/ AlbumBegin
    \/ Validate
    \/ CreateThumbnail
    \/ Reconcile
    \/ AlbumIndexStep
    \/ AlbumWriteEnd
    \/ Kill
    \/ LegacyMain
    \/ LegacyConstruct
    \/ LegacyMkdir
    \/ LegacyRootOpen
    \/ LegacyRootWriteEnd
    \/ LegacyAlbumBegin
    \/ LegacyImage
    \/ LegacyAlbumOpen
    \/ LegacyAlbumWriteEnd
    \/ LegacyKill
    \/ Env

Spec == Init /\ [][Next]_vars

(***************************************************************************)
(* The crawler scripts/download_gallery.py: GalleryDownloader.run, one     *)
(* action per step.  The site is the environment: what a request returns   *)
(* is chosen when the request is made.                                     *)
(***************************************************************************)
\* "if page > 9: break"
LastPage == 9

\* the posts of a listing page in the model: at most this many
MaxPosts == 2

\* a post title of a listing page: its link has an href and a title, or the
\* title is missing
CompletePost == [href |-> TRUE, title |-> TRUE]
UntitledPost == [href |-> TRUE, title |-> FALSE]

\* what get_page_content returns: the text of the page (its posts), or None
\* when the request failed
Content(ps) == [ok |-> TRUE, posts |-> ps]
NoContent == [ok |-> FALSE, posts |-> <<>>]

\* the listing pages the site may serve: up to MaxPosts posts
RECURSIVE PostLists(_)
PostLists(n) ==
    IF n = 0 THEN {<<>>}
    ELSE PostLists(n - 1)
         \cup {Append(ps, p) : ps \in {q \in PostLists(n - 1) : Len(q) = n - 1},
                               p \in {CompletePost, UntitledPost}}

\* what get_page_content may return for a listing page
PageContents == {NoContent} \cup {Content(ps) : ps \in PostLists(MaxPosts)}

\* page_url: the gallery URL for page 1, <gallery>page/<n>/ for the others
PageUrl(n) == IF n = 1 THEN <<"category/photogallery/">>
              ELSE <<"category/photogallery/", "page", n>>

\* get_album_links: no content gives []; otherwise the posts whose link has
\* an href and a title, in the order of the page, each with its place
get_album_links(content) ==
    IF ~content.ok THEN <<>>
    ELSE LET idx == {i \in 1..Len(content.posts) :
                        content.posts[i].href /\ content.posts[i].title}
             nth(k) == CHOOSE i \in idx : Cardinality({j \in idx : j <= i}) = k
         IN  [k \in 1..Cardinality(idx) |-> nth(k)]

\* mutant: the pagination has no last page
StopsAfter_Never(n) == FALSE

\* "if page > 9: break", after "page += 1"
StopsAfter(n) == n > LastPage

\* the downloader is constructed, run() is not called yet, and the indexer
\* is not run
CrawlerInit ==
    /\ CrawlerIdle
    /\ IndexerInit
    /\ ~rootExists /\ ~toolOK
    /\ argExtensions = <<RawPngUpper, RawJpg>>
    /\ LegacyIdle /\ ~convertRuns

\* run: "page = 1"
Run ==
    /\ crawl_pc = "idle"
    /\ page' = 1
    /\ crawl_pc' = "request"
    /\ UNCHANGED <<album_links, link_i, requested, yielded, processed,
                   indexerVars, legacyVars>>

\* the head of the loop: the listing page is requested; without album links
\* the loop is left
RequestPage ==
    /\ crawl_pc = "request"
    /\ \E content \in PageContents :
          LET links == get_album_links(content)
          IN  /\ album_links' = links
              /\ yielded' = Append(yielded, Len(links))
              /\ IF links = <<>>
                 THEN crawl_pc' = "done" /\ link_i' = 0
                 ELSE crawl_pc' = "album" /\ link_i' = 1
    /\ requested' = Append(requested, PageUrl(page))
    /\ processed' = <<>>
    /\ UNCHANGED <<page, indexerVars, legacyVars>>

\* "for album in albums: self.process_album_page(...)": one album; the call
\* returns (also when its requests fail) or raises, an OSError of makedirs
\* or open, which ends run()
ProcessAlbum ==
    /\ crawl_pc = "album"
    /\ processed' = Append(processed, album_links[link_i])
    /\ \E returns \in BOOLEAN :
          IF returns
          THEN /\ link_i' = link_i + 1
               /\ crawl_pc' = IF link_i + 1 > Len(album_links) THEN "advance"
                              ELSE "album"
          ELSE /\ crawl_pc' = "raised"
               /\ UNCHANGED link_i
    /\ UNCHANGED <<page, album_links, requested, yielded, indexerVars,
                   legacyVars>>

\* "page += 1; if page > 9: break"
NextPage ==
    /\ crawl_pc = "advance"
    /\ page' = page + 1
    /\ crawl_pc' = IF StopsAfter(page + 1) THEN "done" ELSE "request"
    /\ UNCHANGED <<album_links, link_i, requested, yielded, processed,
                   indexerVars, legacyVars>>

CrawlerNext == Run \/ RequestPage \/ ProcessAlbum \/ NextPage

\* every call of run() goes on: a request returns or fails, an album page is
\* processed, the loop goes round
CrawlerSpec == CrawlerInit /\ [][CrawlerNext]_vars /\ WF_vars(CrawlerNext)

(***************************************************************************)
(* Vocabulary of the properties.                                           *)
(***************************************************************************)
\* the current run is the second of two runs in succession: the run before
\* it completed, was not a dry run, and the gallery was not changed since
AfterRealRun == prev.pc = "done" /\ ~prev.dry
Unchanged == prev.env = {}

\* a non-dry run has completed and nothing was changed since
RealRunDone == pc = "done" /\ ~dry_run /\ runs >= 1 /\ envLog = {}

\* the manifests on disk are those the run found when it started
ManifestsAsAtStart == rootIndex = start.root /\ albumIndex = start.idx

\* the file has an extension of --extensions
AllowedExtension(n) ==
    Lower(Suffix(n)) \in {NormalizeExtension(argExtensions[i]) :
                             i \in 1..Len(argExtensions)}

\* the file n of album a is an image that passes validation
ValidImage(a, n) ==
    n \in DOMAIN files[a] /\ AllowedExtension(n) /\ Decodes(files[a][n].content)

\* the staleness conditions of a thumbnail, as the specification lists them
StaleThumbnail(a, n, thumbsOf) ==
    \/ n \notin DOMAIN thumbsOf
    \/ /\ n \in DOMAIN thumbsOf
       /\ \/ files[a][n].mtime > thumbsOf[n].mtime
          \/ thumbsOf[n].dims = <<>>
          \/ thumbsOf[n].dims # TargetSize

\* the thumbnail of n was judged fresh by the current run, or generated by it
SyncedThisRun(a, n) ==
    \/ ~StaleThumbnail(a, n, start.thumbs[a])
    \/ n \in DOMAIN thumbs[a] /\ thumbs[a][n] = ThumbFile(TargetSize, now)

\* the albums of the root
AlbumsOfRoot == Range(get_albums(rootEntries))

\* the names of the entries of an album manifest
EntryNames(doc) == {doc.images[i].name : i \in 1..Len(doc.images)}

\* the entries of an album manifest with the name n
EntriesOf(doc, n) == {doc.images[i] : i \in {j \in 1..Len(doc.images) :
                                                doc.images[j].name = n}}

(***************************************************************************)
(* C1.  Idempotence.                                                       *)
(***************************************************************************)
\* C1 as stated: of two non-dry runs in succession over an unchanged gallery
\* the second writes no manifest (all are as the first left them) and calls
\* the thumbnail generator zero times.
C1_Idempotence_AsStated ==
    (RealRunDone /\ AfterRealRun /\ Unchanged)
        => (written = {} /\ ManifestsAsAtStart /\ invoked = <<>>)

\* every validated image has a fresh thumbnail when the current run starts
AllFreshAtStart ==
    \A a \in AlbumsOfRoot : \A n \in DOMAIN files[a] :
        ValidImage(a, n) => ~StaleThumbnail(a, n, start.thumbs[a])

\* C1 amended: of two non-dry runs in succession over an unchanged gallery,
\* when no call of the generator failed in the first and it left every
\* validated image with a fresh thumbnail (no image is dated later than the
\* thumbnail made for it), the second writes no manifest and calls the
\* generator zero times.
C1_Idempotence ==
    (RealRunDone /\ AfterRealRun /\ Unchanged /\ prev.failed = <<>>
     /\ AllFreshAtStart)
        => (written = {} /\ ManifestsAsAtStart /\ invoked = <<>>)

\* a second run over two validated images in sync, with a manifest of two
\* entries left by the first run
C1_Witness ==
    /\ RealRunDone /\ AfterRealRun /\ Unchanged /\ AllFreshAtStart
    /\ prev.failed = <<>>
    /\ Len(validated) >= 2
    /\ Len(albumIndex["a"].images) >= 2
    /\ written = {}

(***************************************************************************)
(* C2.  Change detection.                                                  *)
(***************************************************************************)
\* between the run before and the current run exactly the bytes of the image
\* file n of album a were changed
OnlyModified(a, n) == prev.env = {<<"modify", a, n>>} /\ AllowedExtension(n)

\* the entries of the other images are those of the prior manifest
OthersKept(a, n) ==
    \A m \in EntryNames(albumIndex[a]) \ {n} :
        EntriesOf(albumIndex[a], m) = EntriesOf(start.idx[a], m)

\* C2 as stated: when exactly one image of an album had its bytes changed
\* between two non-dry runs, the second run recomputes the metadata of
\* exactly that image, rewrites the album's manifest, and leaves the entries
\* of the other images as they were in the prior manifest.
C2_ChangeDetection_AsStated ==
    \A a \in AlbumNames : \A n \in FileNames(a) :
        (RealRunDone /\ AfterRealRun /\ OnlyModified(a, n))
            => /\ recomputed = {<<a, n>>}
               /\ a \in written
               /\ OthersKept(a, n)

\* C2 amended: when exactly one image of an album had its bytes changed
\* between two non-dry runs, the changed file passes validation and no call
\* of the generator fails in either run, then the second run recomputes the
\* metadata of exactly that image, rewrites the album's manifest, and leaves
\* the entries of the other images as they were in the prior manifest.
C2_ChangeDetection ==
    \A a \in AlbumNames : \A n \in FileNames(a) :
        (RealRunDone /\ AfterRealRun /\ OnlyModified(a, n)
         /\ ValidImage(a, n) /\ failed = <<>> /\ prev.failed = <<>>)
            => /\ recomputed = {<<a, n>>}
               /\ a \in written
               /\ OthersKept(a, n)
               /\ \A e \in EntriesOf(albumIndex[a], n) :
                     e = get_image_info(n, files[a][n])

\* p.jpg was edited between two runs; the second run has recomputed it and
\* kept the entry of q.PNG
C2_Witness ==
    /\ RealRunDone /\ AfterRealRun /\ OnlyModified("a", PJpg)
    /\ ValidImage("a", PJpg) /\ failed = <<>> /\ prev.failed = <<>>
    /\ recomputed = {<<"a", PJpg>>}
    /\ QPng \in EntryNames(albumIndex["a"])
    /\ QPng \in EntryNames(start.idx["a"])
    /\ PJpg \in EntryNames(start.idx["a"])

(***************************************************************************)
(* C3.  The staleness decision.                                            *)
(***************************************************************************)
\* the image the run is at
CurAlbum == albums[ai]
CurImage == image_files[ii]

\* C3: in a non-dry run every image that passed validation is given to
\* create_thumbnail, and the generator is called for it exactly when its
\* thumbnail is missing, older than the image, unreadable or of another size
\* than the target; equal modification times with the target size are fresh.
C3_StalenessDecision ==
    [][ /\ (pc = "validate" /\ ~dry_run
            /\ ValidImage(CurAlbum, CurImage)) => pc' = "thumb"
        /\ (pc = "thumb" /\ ~dry_run) =>
              ( (invoked' = Append(invoked, <<CurAlbum, CurImage>>))
                  <=> StaleThumbnail(CurAlbum, CurImage, thumbs[CurAlbum]) )
        /\ (pc = "thumb" /\ ~dry_run
            /\ ~StaleThumbnail(CurAlbum, CurImage, thumbs[CurAlbum]))
              => invoked' = invoked /\ thumbs' = thumbs
      ]_vars

\* a non-dry run has judged a thumbnail fresh whose modification time equals
\* that of its image, and has not called the generator
C3_Witness ==
    /\ pc = "reconcile" /\ ~dry_run
    /\ CurImage \in DOMAIN thumbs[CurAlbum]
    /\ thumbs[CurAlbum][CurImage].mtime = files[CurAlbum][CurImage].mtime
    /\ thumbs[CurAlbum][CurImage].dims = TargetSize
    /\ <<CurAlbum, CurImage>> \notin Range(invoked)

(***************************************************************************)
(* C4.  A dry run changes nothing.                                         *)
(***************************************************************************)
\* C4: from the construction of the processor to the end of a dry run no
\* index.json, no thumbnail and no thumbnails directory is created or
\* modified, and the generator is never called.
C4_DryRunPurity ==
    (dry_run /\ runs >= 1 /\ envLog = {})
        => /\ ManifestsAsAtStart
           /\ thumbs = start.thumbs
           /\ thumbDir = start.thumbDir
           /\ invoked = <<>>

\* a dry run has completed over an album without a thumbnails directory and
\* without manifests, in which an image passed validation
C4_Witness ==
    /\ dry_run /\ pc = "done" /\ envLog = {}
    /\ validated # <<>>
    /\ \E a \in AlbumsOfRoot : ~thumbDir[a] /\ albumIndex[a] = AbsentDoc
    /\ rootIndex = AbsentDoc

(***************************************************************************)
(* C5.  A dry run reports the decisions of a real run.                     *)
(***************************************************************************)
\* C5 as stated: a dry run and a real run started from the same gallery
\* report the same decision for every thumbnail and every manifest.  (The
\* real run is the current one; the dry run before it left the gallery as it
\* found it.)
C5_DryRunReports_AsStated ==
    (RealRunDone /\ prev.pc = "done" /\ prev.dry /\ Unchanged)
        => report = prev.report

(***************************************************************************)
(* C6.  Manifest membership.                                               *)
(***************************************************************************)
\* the files of album a that belong in its manifest after the current run
Members(a) ==
    {n \in DOMAIN files[a] : ValidImage(a, n) /\ SyncedThisRun(a, n)}

\* C6: after a completed non-dry run the names in each album's index.json
\* are exactly the files of the album that have an allowed extension, passed
\* validation and whose thumbnail was generated or judged fresh in this run.
C6_ManifestMembership ==
    RealRunDone =>
        \A a \in AlbumsOfRoot :
            /\ albumIndex[a].kind = "object"
            /\ EntryNames(albumIndex[a]) = Members(a)

\* a run has completed over an album whose prior manifest named a file that
\* is gone and that still has an image, while in some album a file with an
\* allowed extension failed validation or generation
C6_Witness ==
    /\ RealRunDone
    /\ \E a \in AlbumsOfRoot :
          /\ EntryNames(start.idx[a]) \ DOMAIN files[a] # {}
          /\ Members(a) # {}
    /\ \E a \in AlbumsOfRoot : \E n \in DOMAIN files[a] :
          AllowedExtension(n) /\ n \notin Members(a)

(***************************************************************************)
(* C7.  Failures of one image do not abort the run.                        *)
(***************************************************************************)
\* the current image fails validation
FailsValidation ==
    pc = "validate" /\ ~is_valid_image(extensions, CurImage,
                                       files[CurAlbum][CurImage])

\* the step is a call of the generator that exits non-zero
GeneratorFails == pc = "thumb" /\ failed' # failed

\* the run goes on with the image after the current one, or with the album
\* manifest after the last image, and has not added the image to the manifest
SkipsOnlyThisImage ==
    /\ ii' = ii + 1
    /\ ai' = ai
    /\ images_info' = images_info
    /\ image_files' = image_files
    /\ pc' = IF ii < Len(image_files) THEN "validate" ELSE "albumindex"

\* the run has exited with 1 for a reason that is none of its images: a
\* fatal precondition, or a prior manifest that is valid JSON of another shape
AbortedForOtherReason ==
    \/ ~toolOK
    \/ ~rootExists
    \/ RootCompareRaises(dry_run, read_existing_index(rootIndex))
    \/ /\ ai \in 1..Len(albums)
       /\ ExistingImagesRaises(read_existing_index(albumIndex[albums[ai]]))

\* C7: an image that fails validation or for which the generator exits
\* non-zero is skipped, and the run goes on with the next image and the next
\* album; no such failure makes the run exit with 1, and a run that ends with
\* success has gone through all albums.
C7_ImageFailuresDoNotAbort ==
    /\ [][(FailsValidation \/ GeneratorFails) => SkipsOnlyThisImage]_vars
    /\ [](pc = "exit1" => AbortedForOtherReason)
    /\ [](pc = "done" => ai = Len(albums) + 1)

\* a run has ended with success in which an image failed validation, the
\* generator failed for another, and a later album was still written
C7_Witness ==
    /\ pc = "done" /\ ~dry_run
    /\ failed # <<>>
    /\ \E n \in DOMAIN files["a"] :
          AllowedExtension(n) /\ ~Decodes(files["a"][n].content)
    /\ failed[1][1] = "a"
    /\ albums = <<"a", "b">>
    /\ "b" \in written

(***************************************************************************)
(* C8.  Manifest writes are atomic.                                        *)
(***************************************************************************)
\* C8 as stated: at every point of a run, also when the process is killed
\* in the middle of a write, each index.json holds its complete prior
\* content or its complete new content.
C8_AtomicManifestWrite_AsStated ==
    (runs >= 1) =>
        /\ \/ rootIndex = start.root
           \/ rootIndex = NewRootIndex(get_albums(rootEntries), now)
        /\ \A a \in AlbumNames :
              \/ albumIndex[a] = start.idx[a]
              \/ /\ albumIndex[a].kind = "object"
                 /\ albumIndex[a] =
                      NewAlbumIndex(a, albumIndex[a].images, now)

(***************************************************************************)
(* C9.  A malformed prior manifest is treated as absent.                   *)
(***************************************************************************)
\* C9 as stated: whatever a prior root or album index.json holds, the run
\* does not abort: it exits with 1 only for a missing tool or a missing root.
C9_ManifestErrorsRecovered_AsStated ==
    pc = "exit1" => (~toolOK \/ ~rootExists)

(***************************************************************************)
(* C10.  Fatal preconditions abort before any mutation.                    *)
(***************************************************************************)
\* nothing under the root was created or modified since the run started
NothingMutated ==
    /\ ManifestsAsAtStart
    /\ thumbs = start.thumbs
    /\ thumbDir = start.thumbDir

\* C10: without the thumbnail tool the run exits with 1 before the processor
\* is constructed; with the tool but without the root it exits with 1 from
\* the constructor; in both cases nothing was created or modified.
C10_FatalPreconditions ==
    /\ (runs >= 1 /\ ~toolOK)
          => (pc = "exit1" /\ extensions = <<>> /\ NothingMutated)
    /\ (runs >= 1 /\ toolOK /\ ~rootExists)
          => (pc \in {"construct", "exit1"} /\ extensions = <<>>
              /\ NothingMutated)

\* a non-dry run without the tool has exited with 1 over a gallery whose
\* albums have images and no thumbnails directory
C10_Witness ==
    /\ pc = "exit1" /\ ~toolOK /\ ~dry_run /\ rootExists
    /\ \E a \in AlbumsOfRoot : ~thumbDir[a] /\ DOMAIN files[a] # {}
    /\ rootIndex = AbsentDoc

(***************************************************************************)
(* C11.  A new empty album changes the root manifest only.                 *)
(***************************************************************************)
\* between the run before and the current run exactly the empty directory a
\* was added to the root
OnlyAddedAlbum(a) ==
    /\ prev.env = {<<"mkdir", a, <<>>>>}
    /\ files[a] = EmptyDir

\* the root manifest was rewritten and lists the album a
RootRewrittenWith(a) ==
    /\ "" \in written
    /\ rootIndex.kind = "object"
    /\ a \in Range(rootIndex.albums)

\* the manifests of the albums other than a are those the run found
OtherAlbumManifestsKept(a) ==
    \A b \in AlbumsOfRoot \ {a} : albumIndex[b] = start.idx[b]

\* C11 as stated: when the only change between two non-dry runs is a new
\* empty album directory, the second run rewrites the root manifest with the
\* new album in its list and changes no manifest of an album that existed.
C11_NewAlbumRootOnly_AsStated ==
    \A a \in AlbumNames :
        (RealRunDone /\ AfterRealRun /\ OnlyAddedAlbum(a))
            => (RootRewrittenWith(a) /\ OtherAlbumManifestsKept(a))

\* C11 amended: when the only change between two non-dry runs is a new empty
\* album directory, no call of the generator failed in the first run and it
\* left every validated image with a fresh thumbnail, the second run rewrites
\* the root manifest with the new album in its list and changes no manifest
\* of an album that existed.
C11_NewAlbumRootOnly ==
    \A a \in AlbumNames :
        (RealRunDone /\ AfterRealRun /\ OnlyAddedAlbum(a)
         /\ prev.failed = <<>> /\ AllFreshAtStart)
            => (RootRewrittenWith(a) /\ OtherAlbumManifestsKept(a))

\* the album "b" was added next to the album "a", whose manifest of two
\* entries the second run has kept while it rewrote the root manifest
C11_Witness ==
    /\ RealRunDone /\ AfterRealRun /\ OnlyAddedAlbum("b")
    /\ prev.failed = <<>> /\ AllFreshAtStart
    /\ "a" \in AlbumsOfRoot
    /\ Len(start.idx["a"].images) = 2
    /\ albumIndex["a"] = start.idx["a"]
    /\ start.root.kind = "object"
    /\ "b" \notin Range(start.root.albums)
    /\ RootRewrittenWith("b")

(***************************************************************************)
(* C12.  The root manifest lists the album directories, in order.          *)
(***************************************************************************)
\* the names of the immediate subdirectories of the root that are not named
\* "thumbnails", in the order of the listing
AlbumDirectoryNames ==
    LET dirs == SelectSeq(rootEntries,
                          LAMBDA d : d.dir /\ d.name # "thumbnails")
    IN  [i \in 1..Len(dirs) |-> dirs[i].name]

\* C12: after every completed non-dry run the root index.json exists and its
\* albums list is, element for element and in the same order, the list of
\* the immediate subdirectories of the root not named "thumbnails"; regular
\* files and the thumbnails directory are not in it.
C12_RootManifestInvariant ==
    RealRunDone =>
        /\ rootIndex.kind = "object"
        /\ "albums" \in rootIndex.keys
        /\ rootIndex.albums = AlbumDirectoryNames

\* a second run has completed over a root that holds two albums, a directory
\* named "thumbnails" and a regular file, and has kept the root manifest
C12_Witness ==
    /\ RealRunDone /\ AfterRealRun
    /\ \E i \in 1..Len(rootEntries) : rootEntries[i] = DirEntry("thumbnails")
    /\ \E i \in 1..Len(rootEntries) : ~rootEntries[i].dir
    /\ rootIndex.albums = <<"a", "b">>
    /\ "" \notin written

(***************************************************************************)
(* C13.  Structure of a written album manifest.                            *)
(***************************************************************************)
\* the album manifests written by the current run
WrittenAlbumManifests == {albumIndex[a] : a \in written \ {""}}

\* the entries are in lexicographic order of their names and no name is
\* there twice
StrictlySortedByName(images) ==
    \A i, j \in 1..Len(images) :
        i < j => StrLess(images[i].name, images[j].name)

\* C13 as stated: for every --extensions list, every album manifest written
\* by a run has count equal to the length of images, and images is in
\* lexicographic order of the file names with each image at most once.
C13_AlbumManifestStructure_AsStated ==
    \A doc \in WrittenAlbumManifests :
        /\ doc.kind = "object"
        /\ doc.count = Len(doc.images)
        /\ StrictlySortedByName(doc.images)

(***************************************************************************)
(* C14.  The manifest records the current state of the files.              *)
(***************************************************************************)
\* the entry e of the manifest of album a records the file it names as the
\* file is now
EntryAccurate(a, e) ==
    /\ e.name \in DOMAIN files[a]
    /\ LET f == files[a][e.name]
       IN  /\ e.size = ByteSize(f.content)
           /\ e.modified = IsoFormat(f.mtime)
           /\ e.width = ImageWidth(f.content)
           /\ e.height = ImageHeight(f.content)
           /\ EntryGetHash(e) = calculate_image_hash(f.content)

\* C14 as stated: after a completed non-dry run, whatever runs and changes
\* of image files came before, every entry of every album manifest on disk
\* records the current byte size, modification time, dimensions and content
\* hash of the file it names.
C14_ManifestAccuracy_AsStated ==
    RealRunDone =>
        \A a \in AlbumsOfRoot :
            \A i \in 1..Len(albumIndex[a].images) :
                EntryAccurate(a, albumIndex[a].images[i])

(***************************************************************************)
(* C15.  Reuse of prior entries.                                           *)
(***************************************************************************)
\* the entries of the prior manifest of album a for the file n whose hash
\* field is the content hash of the file as it is now
MatchingPriorEntries(a, n) ==
    {e \in EntriesOf(start.idx[a], n) :
        EntryGetHash(e) = calculate_image_hash(files[a][n].content)}

\* a freshly computed entry: name, width, height, size, modified, thumbnail
\* and hash of the file as it is now
FreshEntry(a, n) ==
    LET f == files[a][n]
    IN  [name |-> n,
         width |-> ImageWidth(f.content),
         height |-> ImageHeight(f.content),
         size |-> ByteSize(f.content),
         modified |-> IsoFormat(f.mtime),
         thumbnail |-> ThumbnailRel(n),
         hash |-> calculate_image_hash(f.content)]

\* C15: after a completed non-dry run, for every validated image whose
\* thumbnail was synchronized: if the prior manifest has an entry of the same
\* name whose hash is the file's current content hash, the manifest holds
\* that prior entry with all its fields, also those the indexer does not
\* produce; otherwise (no prior entry, another hash, no hash field) it holds
\* a freshly computed entry.
C15_EntryReuse ==
    RealRunDone =>
        \A a \in AlbumsOfRoot : \A n \in Members(a) :
            /\ EntriesOf(albumIndex[a], n) # {}
            /\ IF MatchingPriorEntries(a, n) # {}
               THEN EntriesOf(albumIndex[a], n) \subseteq
                        MatchingPriorEntries(a, n)
               ELSE EntriesOf(albumIndex[a], n) = {FreshEntry(a, n)}

\* a run over a prior manifest has kept the captioned entry of p.jpg, whose
\* hash matched, with its caption and its old modification time, and has
\* replaced the entry of q.PNG, whose hash did not match, by a fresh one
C15_Witness ==
    /\ RealRunDone
    /\ start.idx["a"] = PriorAlbumIndex
    /\ EntriesOf(albumIndex["a"], PJpg) = {CaptionedEntry(PJpg, 1, 0)}
    /\ files["a"][PJpg].mtime # 0
    /\ QPng \in Members("a")
    /\ EntriesOf(albumIndex["a"], QPng) = {FreshEntry("a", QPng)}

(***************************************************************************)
(* C16.  Every listed image has a thumbnail of the target size.            *)
(***************************************************************************)
\* the image n of album a has a thumbnail of the target size that is not
\* older than the image
HasCurrentThumbnail(a, n) ==
    /\ n \in DOMAIN thumbs[a]
    /\ thumbs[a][n].dims = TargetSize
    /\ n \in DOMAIN files[a]
    /\ thumbs[a][n].mtime >= files[a][n].mtime

\* every image listed in an album manifest has such a thumbnail
ListedImagesHaveThumbnails ==
    \A a \in AlbumsOfRoot : \A n \in EntryNames(albumIndex[a]) :
        HasCurrentThumbnail(a, n)

\* no image file is dated later than the clock of the run
NoImageDatedInFuture ==
    \A a \in AlbumsOfRoot : \A n \in DOMAIN files[a] : files[a][n].mtime <= now

\* C16 as stated: after a completed non-dry run (the generator writes a
\* thumbnail of the target size whenever it exits zero) every image listed
\* in an album manifest has a thumbnail at <album>/thumbnails/<name> of the
\* target size whose modification time is not less than the image's.
C16_ThumbnailInvariant_AsStated ==
    RealRunDone => ListedImagesHaveThumbnails

\* C16 amended: after a completed non-dry run over a gallery in which no
\* image file is dated later than the time of the run (the generator writes
\* a thumbnail of the target size whenever it exits zero) every image listed
\* in an album manifest has a thumbnail at <album>/thumbnails/<name> of the
\* target size whose modification time is not less than the image's.
C16_ThumbnailInvariant ==
    (RealRunDone /\ NoImageDatedInFuture) => ListedImagesHaveThumbnails

\* a run has completed that replaced a thumbnail of another size by one of
\* the target size and kept a thumbnail as old as its image
C16_Witness ==
    /\ RealRunDone /\ NoImageDatedInFuture
    /\ \E a \in AlbumsOfRoot : \E n, m \in EntryNames(albumIndex[a]) :
          /\ n \in DOMAIN start.thumbs[a]
          /\ start.thumbs[a][n].dims = OtherSize
          /\ thumbs[a][n] = ThumbFile(TargetSize, now)
          /\ thumbs[a][m].mtime = files[a][m].mtime
          /\ thumbs[a][m] = start.thumbs[a][m]

(***************************************************************************)
(* C17.  The manifests carry the version tag.                              *)
(***************************************************************************)
\* the manifest is a JSON object with "version": "2.0"
HasVersionTag(doc) ==
    doc.kind = "object" /\ "version" \in doc.keys /\ doc.version = "2.0"

\* C17 as stated: after a completed non-dry run the root manifest and every
\* album manifest on disk carry the version tag "2.0", whatever well-formed
\* manifests were on disk before, those of the legacy indexer included.
C17_VersionTag_AsStated ==
    RealRunDone =>
        /\ HasVersionTag(rootIndex)
        /\ \A a \in AlbumsOfRoot : HasVersionTag(albumIndex[a])

(***************************************************************************)
(* C18.  The phases of a run come in sequence.                             *)
(***************************************************************************)
\* the run is in the body of the album loop
InAlbumLoop ==
    pc \in {"album", "validate", "thumb", "reconcile", "albumindex",
            "albumwrite"}

\* the run is in the body of the image loop
InImageLoop == pc \in {"validate", "thumb", "reconcile"}

\* the decision on the root manifest has been taken and reported
RootReconciled == \E d \in {"write", "uptodate"} : IndexDecision("", d) \in report

\* the names in s do not go down in lexicographic order
NonDecreasing(s) == \A i, j \in 1..Len(s) : i < j => ~StrLess(s[j], s[i])

\* the names of the images of album a that passed validation, in the order
\* in which they were validated
ValidatedNames(a) ==
    LET v == SelectSeq(validated, LAMBDA x : x[1] = a)
    IN  [i \in 1..Len(v) |-> v[i][2]]

\* the last element of a sequence
Last(s) == s[Len(s)]

\* a run starts
RunStarts == runs' = runs + 1

\* the step is one of a run of the indexer that has started
StepOfRun == pc \notin {"idle", "done"}

\* what holds in every state of a run: nothing of an album is done before the
\* root manifest is reconciled; one album and one image of it are at work;
\* the images are taken in sorted order; the image given to the generator or
\* to the hash is the one validated last
PhaseInvariant ==
    /\ (runs >= 1 /\ ~RootReconciled) =>
          /\ pc \in {"construct", "root", "rootwrite", "exit1", "killed"}
          /\ validated = <<>> /\ invoked = <<>> /\ recomputed = {}
          /\ written = {} /\ images_info = <<>> /\ ai = 0
    /\ InAlbumLoop => (RootReconciled /\ ai \in 1..Len(albums))
    /\ InImageLoop => ii \in 1..Len(image_files)
    /\ InAlbumLoop => NonDecreasing(image_files)
    /\ \A a \in AlbumNames : NonDecreasing(ValidatedNames(a))
    /\ pc \in {"thumb", "reconcile"} =>
          (validated # <<>> /\ Last(validated) = <<CurAlbum, CurImage>>)
    /\ pc \in {"albumindex", "albumwrite"} => ii = Len(image_files) + 1

\* what holds of every step of a run: the albums and the images are taken one
\* after the other; the generator is called for the image validated last;
\* the hash is computed and the entry made only when create_thumbnail has
\* returned true for that image; an album manifest is written only by the
\* album at work after its last image
PhaseStep ==
    /\ (ai' # ai /\ ~RunStarts) =>
          (ai' = ai + 1 /\ pc \in {"root", "rootwrite", "albumindex",
                                   "albumwrite"})
    /\ (ii' # ii /\ ~RunStarts /\ pc # "album") =>
          (ii' = ii + 1 /\ ai' = ai)
    /\ (pc' = "thumb" /\ pc # "thumb") =>
          (pc = "validate" /\ validated' = Append(validated,
                                                  <<CurAlbum, CurImage>>))
    /\ (invoked' # invoked /\ ~RunStarts) =>
          (pc = "thumb" /\ invoked' = Append(invoked, Last(validated)))
    /\ (pc' = "reconcile" /\ pc # "reconcile") =>
          (pc = "thumb" /\ failed' = failed /\ ii' = ii
           /\ (dry_run \/ ~should_update_thumbnail(files[CurAlbum][CurImage],
                               thumbs[CurAlbum], CurImage, TargetSize)
               \/ thumbs'[CurAlbum][CurImage] = ThumbFile(TargetSize, now)))
    /\ ((images_info' # images_info \/ recomputed' # recomputed)
        /\ ~RunStarts /\ pc # "album") =>
          (pc = "reconcile" /\ Len(images_info') = Len(images_info) + 1
           /\ Last(images_info').name = CurImage)
    /\ (albumIndex' # albumIndex /\ StepOfRun) =>
          (pc \in {"albumindex", "albumwrite"}
           /\ ii = Len(image_files) + 1
           /\ \A a \in AlbumNames \ {CurAlbum} : albumIndex'[a] = albumIndex[a])
    /\ (rootIndex' # rootIndex /\ StepOfRun) =>
          (pc \in {"root", "rootwrite"} /\ ai = 0)

\* C18: in every run the root manifest is reconciled before any album is
\* processed; the albums are processed one at a time and the images of an
\* album one at a time in sorted order of their names; the generator is
\* called for an image only after it passed validation, its hash is computed
\* only after create_thumbnail returned true for it, and the album manifest
\* is written only after all images of the album were processed.
C18_SequentialPhases == [][PhaseStep]_vars /\ []PhaseInvariant

\* a run is at the manifest of an album of which it validated two images in
\* sorted order, p.jpg before q.PNG, though they were collected q.PNG first,
\* called the generator for one and computed the entries of both
C18_Witness ==
    /\ pc = "albumindex" /\ ~dry_run
    /\ extensions = <<Lower(RawPngUpper), DotJpg>>
    /\ ValidatedNames(CurAlbum) = <<PJpg, QPng>>
    /\ invoked # <<>>
    /\ Len(images_info) = 2
    /\ rootIndex = NewRootIndex(albums, now)

(***************************************************************************)
(* C19.  An image is taken up again after a failure of the generator.      *)
(***************************************************************************)
\* the run before the current one left the image n out of the manifest of
\* album a because the generator failed for it, and the album was not
\* changed since
ExcludedByFailure(a, n) ==
    /\ AfterRealRun /\ Unchanged
    /\ <<a, n>> \in Range(prev.failed)
    /\ start.idx[a].kind = "object"
    /\ n \notin EntryNames(start.idx[a])

\* the generator has succeeded for the image in the current run
GeneratedNow(a, n) ==
    /\ <<a, n>> \in Range(invoked)
    /\ n \in DOMAIN thumbs[a]
    /\ thumbs[a][n] = ThumbFile(TargetSize, now)

\* C19: when an image was left out of an album manifest because the
\* generator failed in one run, and in a later non-dry run over the album,
\* otherwise unchanged, the generator succeeds for it, that run adds the
\* entry of the image to the manifest and rewrites the manifest.
C19_RecoveryAfterFailure ==
    \A a \in AlbumNames : \A n \in FileNames(a) :
        (RealRunDone /\ ExcludedByFailure(a, n) /\ GeneratedNow(a, n))
            => /\ n \in EntryNames(albumIndex[a])
               /\ FreshEntry(a, n) \in EntriesOf(albumIndex[a], n)
               /\ a \in written
               /\ albumIndex[a] # start.idx[a]

\* q.PNG was left out of the manifest of album "a" by a run in which the
\* generator failed; the next run has generated its thumbnail and written
\* a manifest of two entries
C19_Witness ==
    /\ RealRunDone /\ ExcludedByFailure("a", QPng) /\ GeneratedNow("a", QPng)
    /\ EntryNames(start.idx["a"]) = {PJpg}
    /\ EntryNames(albumIndex["a"]) = {PJpg, QPng}
    /\ "a" \in written

(***************************************************************************)
(* C20.  The pagination of the crawler ends.                               *)
(***************************************************************************)
\* run() has ended: it returned, or an exception left it
CrawlerEnded == crawl_pc \in {"done", "raised"}

\* the r-th request is for listing page r: page 1 first, then in order
PagesInOrder == \A r \in 1..Len(requested) : requested[r] = PageUrl(r)

\* what holds in every state of run(): the listing pages are requested in
\* order from page 1, at most 9 of them; every page before the last one
\* requested yielded album links; a page that yields none ends the run; a
\* run that returned has met such a page or has processed all albums of
\* page 9
PaginationInvariant ==
    /\ PagesInOrder
    /\ Len(requested) <= 9
    /\ Len(yielded) = Len(requested)
    /\ \A r \in 1..(Len(requested) - 1) : yielded[r] > 0
    /\ (requested # <<>> /\ yielded[Len(yielded)] = 0) => crawl_pc = "done"
    /\ crawl_pc = "done" =>
          \/ yielded[Len(yielded)] = 0
          \/ Len(requested) = 9 /\ processed = album_links

\* what holds of every step of run(): a listing page is requested only when
\* all albums found on the page before were processed, and the albums of a
\* page are processed in the order of the page
PaginationStep ==
    /\ requested' # requested =>
          /\ requested' = Append(requested, PageUrl(Len(requested) + 1))
          /\ requested # <<>> =>
                (album_links # <<>> /\ processed = album_links)
    /\ (processed' # processed /\ processed' # <<>>) =>
          processed' = Append(processed, album_links[Len(processed) + 1])

\* C20: run() requests the listing pages in increasing order from page 1,
\* processes every album found on a page before it requests the next page,
\* stops at the first page that yields no album links (a failed request
\* yields none) or after page 9, and so ends after at most 9 requests of a
\* listing page.
C20_PaginationTerminates ==
    /\ []PaginationInvariant
    /\ [][PaginationStep]_vars
    /\ <>CrawlerEnded

\* run() has returned after nine listing pages that all yielded albums, one
\* of them a single album and the last one two, all of them processed
C20_Witness ==
    /\ crawl_pc = "done"
    /\ Len(requested) = 9
    /\ requested[9] = PageUrl(9)
    /\ yielded[9] = 2
    /\ \E r \in 1..8 : yielded[r] = 1
    /\ processed = album_links

====
